---- MODULE Spec2Model ----
(***************************************************************************)
(* Device pool of routes/api/devices.js over the Device collection of      *)
(* models/Device.js.  Every handler is an async function: each `await` on  *)
(* the store is a point where other requests run, so a handler is a        *)
(* sequence of steps, one per store operation, and the store operation is  *)
(* atomic.  The synchronous code that follows a store operation belongs to *)
(* the same step.  `await User.findById` reads no device and is folded     *)
(* into the neighbouring step, except in CheckIn where the code that       *)
(* follows it reads the clock.                                             *)
(***************************************************************************)
EXTENDS Integers, Sequences, FiniteSets, TLC

\* ---------------------------------------------------------------- bounds
NumReqs == 2          \* requests in flight at once
MaxDevices == 2       \* devices ever registered under Spec
CapRegs == 11         \* devices ever registered under SpecCap
StartHour == 14       \* the clock at start-up (hours since midnight)
LastHour == 15        \* the clock stops ticking here under Spec
DayEnd == 18          \* the clock stops ticking here under SpecOne
MaxVersion == 2       \* ledger writes per device under SpecOne
ReviewDevices == 2    \* devices ever registered under SpecReview
ReviewWrites == 3     \* ledger writes per device under SpecReview

\* ------------------------------------------------------ program constants
Capacity == 10        \* deviceNumber >= 10
WindowOpen == 15      \* currentHours < 15
WindowClose == 17     \* currentHours > 17
DefaultRating == 5    \* rating: default 5

Users == {"A", "B"}
NoUser == "none"
NoDate == 0
\* Ratings a review body carries; 0 stands for a body without one.
Ratings == {0, 3}
Reqs == 1 .. NumReqs

VARIABLES
    devices,   \* the device collection: devices[id], id assigned on insertion
    reqs,      \* the requests in flight and their responses
    now,       \* the wall clock, in hours
    lastOp     \* history: per device, the last CheckOut/CheckIn that succeeded

vars == <<devices, reqs, now, lastOp>>

\* ------------------------------------------------------------ Device.js
\* A deleted document: findById resolves to null.
NoDevice ==
    [exists |-> FALSE, registeredBy |-> NoUser, isCheckedOut |-> FALSE,
     lastCheckedOutBy |-> NoUser, lastCheckedOutDate |-> NoDate,
     lastCheckedInDate |-> NoDate, feedbacks |-> <<>>, v |-> 0]

\* new Device({..., registeredBy}) with the schema's defaults.
NewDevice(u) ==
    [exists |-> TRUE, registeredBy |-> u, isCheckedOut |-> FALSE,
     lastCheckedOutBy |-> NoUser, lastCheckedOutDate |-> NoDate,
     lastCheckedInDate |-> NoDate, feedbacks |-> <<>>, v |-> 0]

DevIds == 1 .. Len(devices)

\* Device.findById(id)
FindById(d) == IF d \in DevIds THEN devices[d] ELSE NoDevice

\* Device.count()
Count == Cardinality({d \in DevIds : devices[d].exists})

\* The query without its isCheckedOut: true.
HoldsAny_Ever(u) ==
    \E d \in DevIds : devices[d].exists /\ devices[d].lastCheckedOutBy = u

\* Device.findOne({lastCheckedOutBy: u, isCheckedOut: true}) is not null
HoldsAny(u) ==
    \E d \in DevIds : /\ devices[d].exists
                      /\ devices[d].isCheckedOut
                      /\ devices[d].lastCheckedOutBy = u

\* new Date().getHours()
GetHours(t) == t % 24

\* Off by one at the closing hour.
InWindow_Early(h) == ~(h < WindowOpen \/ h >= WindowClose)

InWindow(h) == ~(h < WindowOpen \/ h > WindowClose)

\* ------------------------------------------------------------- requests
Idle ==
    [op |-> "none", pc |-> "idle", user |-> NoUser, dev |-> 0,
     doc |-> NoDevice, mod |-> {}, stamp |-> NoDate, result |-> "none"]

\* res.status(..).send(..) / res.json(..): the handler's locals are gone.
Done(q, res) == [Idle EXCEPT !.op = q.op, !.pc = "done", !.result = res]

Respond(r, res) == reqs' = [reqs EXCEPT ![r] = Done(@, res)]

\* The fields of a loaded document that a handler goes on to use.
Loaded(device, fields) ==
    [f \in DOMAIN NoDevice |->
        IF f = "exists" \/ f \in fields THEN device[f] ELSE NoDevice[f]]

Begin(r, o, u, d) == [Idle EXCEPT !.op = o, !.user = u, !.dev = d]

TypeOK ==
    /\ now \in StartHour .. DayEnd
    /\ Len(devices) = Len(lastOp)
    /\ \A r \in Reqs : reqs[r].user \in Users \cup {NoUser}

Init ==
    /\ devices = <<>>
    /\ lastOp = <<>>
    /\ reqs = [r \in Reqs |-> Idle]
    /\ now = StartHour

\* The wall clock advances.
Tick(last) ==
    /\ now < last
    /\ now' = now + 1
    /\ UNCHANGED <<devices, reqs, lastOp>>

\* The response has been delivered: the slot takes the next request.
Finish(r) ==
    /\ reqs[r].pc = "done"
    /\ reqs' = [reqs EXCEPT ![r] = Idle]
    /\ UNCHANGED <<devices, now, lastOp>>

\* ------------------------------------------------------- POST api/devices
PendingInserts == Cardinality({q \in Reqs : reqs[q].op = "register" /\ reqs[q].pc = "save"})

\* validationResult, then Device.count() and the capacity check.
RegisterCount(r, u, valid, bound) ==
    /\ reqs[r].pc = "idle"
    /\ (valid /\ Count < Capacity) => Len(devices) + PendingInserts < bound
    /\ reqs' = [reqs EXCEPT ![r] =
          IF ~valid
            THEN Done(Begin(r, "register", u, 0), "ValidationError")
          ELSE IF Count >= Capacity
            THEN Done(Begin(r, "register", u, 0), "CapacityExceeded")
          ELSE [Begin(r, "register", u, 0) EXCEPT !.pc = "save"]]
    /\ UNCHANGED <<devices, now, lastOp>>

\* newDevice.save()
RegisterSave(r) ==
    /\ reqs[r].op = "register" /\ reqs[r].pc = "save"
    /\ devices' = Append(devices, NewDevice(reqs[r].user))
    /\ lastOp' = Append(lastOp, "none")
    /\ Respond(r, "ok")
    /\ UNCHANGED now

\* ------------------------------------------------- DELETE api/devices/:id
\* The handler without the registerer check.
RemoveFind_AnyUser(r, u, d) ==
    /\ reqs[r].pc = "idle"
    /\ LET device == FindById(d) IN
       reqs' = [reqs EXCEPT ![r] =
          IF ~device.exists
            THEN Done(Begin(r, "remove", u, d), "NotFound")
          ELSE [Begin(r, "remove", u, d) EXCEPT !.pc = "save"]]
    /\ UNCHANGED <<devices, now, lastOp>>

\* Device.findById, the existence check and the registerer check.
RemoveFind(r, u, d) ==
    /\ reqs[r].pc = "idle"
    /\ LET device == FindById(d) IN
       reqs' = [reqs EXCEPT ![r] =
          IF ~device.exists
            THEN Done(Begin(r, "remove", u, d), "NotFound")
          ELSE IF device.registeredBy # u
            THEN Done(Begin(r, "remove", u, d), "Forbidden")
          ELSE [Begin(r, "remove", u, d) EXCEPT !.pc = "save"]]
    /\ UNCHANGED <<devices, now, lastOp>>

\* device.remove(): deletes by _id, whatever the document has become.
RemoveSave(r) ==
    /\ reqs[r].op = "remove" /\ reqs[r].pc = "save"
    /\ devices' = [devices EXCEPT ![reqs[r].dev] = NoDevice]
    /\ Respond(r, "ok")
    /\ UNCHANGED <<now, lastOp>>

\* ------------------------------------------ POST api/devices/checkout/:id
\* The paths an assignment marks modified on a loaded document: those whose
\* new value differs from the loaded one.
Modified(doc, assigns) == {f \in DOMAIN assigns : doc[f] # assigns[f]}

\* document.save() of a loaded document: $set of the modified paths on the
\* stored document with that _id; the other stored fields stay.
SaveDoc(stored, mod, assigns) ==
    [f \in DOMAIN stored |-> IF f \in mod THEN assigns[f] ELSE stored[f]]

\* The admission window, read from the clock when the request arrives.
CheckOutStart(r, u, d) ==
    /\ reqs[r].pc = "idle"
    /\ reqs' = [reqs EXCEPT ![r] =
          IF ~InWindow(GetHours(now))
            THEN Done(Begin(r, "checkout", u, d), "OutsideAdmissionWindow")
          ELSE [Begin(r, "checkout", u, d) EXCEPT !.pc = "find"]]
    /\ UNCHANGED <<devices, now, lastOp>>

\* Device.findById and the existence check.
CheckOutFind(r) ==
    /\ reqs[r].op = "checkout" /\ reqs[r].pc = "find"
    /\ LET device == FindById(reqs[r].dev) IN
       reqs' = [reqs EXCEPT ![r] =
          IF ~device.exists
            THEN Done(@, "NotFound")
          ELSE [@ EXCEPT !.pc = "scan", !.doc =
                  Loaded(device, {"isCheckedOut", "lastCheckedOutBy",
                                  "lastCheckedOutDate"})]]
    /\ UNCHANGED <<devices, now, lastOp>>

\* A check-out that also stamps the return date.
CheckOutAssign_Extra(u, t) ==
    [isCheckedOut |-> TRUE, lastCheckedOutBy |-> u, lastCheckedOutDate |-> t,
     lastCheckedInDate |-> t]

\* device.isCheckedOut = true; device.lastCheckedOutBy = user.id;
\* device.lastCheckedOutDate = Date.now()
CheckOutAssign(u, t) ==
    [isCheckedOut |-> TRUE, lastCheckedOutBy |-> u, lastCheckedOutDate |-> t]

\* The availability check done on the holder pointer instead of the flag.
CheckOutScan_EverOut(r) ==
    /\ reqs[r].op = "checkout" /\ reqs[r].pc = "scan"
    /\ reqs' = [reqs EXCEPT ![r] =
          IF HoldsAny(reqs[r].user)
            THEN Done(@, "UserAlreadyHolding")
          ELSE IF reqs[r].doc.lastCheckedOutBy # NoUser
            THEN Done(@, "AlreadyCheckedOut")
          ELSE [@ EXCEPT !.pc = "save", !.stamp = now, !.doc = NoDevice,
                         !.mod = Modified(reqs[r].doc,
                                          CheckOutAssign(reqs[r].user, now))]]
    /\ UNCHANGED <<devices, now, lastOp>>

\* Device.findOne over the collection, then the availability check on the
\* document read by CheckOutFind, then the three assignments.
CheckOutScan(r) ==
    /\ reqs[r].op = "checkout" /\ reqs[r].pc = "scan"
    /\ reqs' = [reqs EXCEPT ![r] =
          IF HoldsAny(reqs[r].user)
            THEN Done(@, "UserAlreadyHolding")
          ELSE IF reqs[r].doc.isCheckedOut
            THEN Done(@, "AlreadyCheckedOut")
          ELSE [@ EXCEPT !.pc = "save", !.stamp = now, !.doc = NoDevice,
                         !.mod = Modified(reqs[r].doc,
                                          CheckOutAssign(reqs[r].user, now))]]
    /\ UNCHANGED <<devices, now, lastOp>>

\* device.save(), then Device.find() and the response.  When the document
\* has been deleted meanwhile the update matches nothing: the save either
\* rejects (500) or resolves, by the version of the library.
CheckOutSave(r) ==
    /\ reqs[r].op = "checkout" /\ reqs[r].pc = "save"
    /\ LET d == reqs[r].dev IN
       IF devices[d].exists
         THEN /\ devices' = [devices EXCEPT ![d] =
                    SaveDoc(@, reqs[r].mod,
                            CheckOutAssign(reqs[r].user, reqs[r].stamp))]
              /\ lastOp' = [lastOp EXCEPT ![d] = "checkout"]
              /\ Respond(r, "ok")
         ELSE /\ UNCHANGED <<devices, lastOp>>
              /\ \E res \in {"ok", "ServerError"} : Respond(r, res)
    /\ UNCHANGED now

\* ------------------------------------------- POST api/devices/checkin/:id
\* The handler behind the hour check of the checkout handler.
CheckInFind_Windowed(r, u, d) ==
    /\ reqs[r].pc = "idle"
    /\ LET device == FindById(d) IN
       reqs' = [reqs EXCEPT ![r] =
          IF ~InWindow(GetHours(now))
            THEN Done(Begin(r, "checkin", u, d), "OutsideAdmissionWindow")
          ELSE IF ~device.exists
            THEN Done(Begin(r, "checkin", u, d), "NotFound")
          ELSE IF ~device.isCheckedOut
            THEN Done(Begin(r, "checkin", u, d), "NotCheckedOut")
          ELSE [Begin(r, "checkin", u, d) EXCEPT !.pc = "user", !.doc =
                  Loaded(device, {"isCheckedOut", "lastCheckedOutBy",
                                  "lastCheckedInDate"})]]
    /\ UNCHANGED <<devices, now, lastOp>>

\* Device.findById, the existence check and the state check.
CheckInFind(r, u, d) ==
    /\ reqs[r].pc = "idle"
    /\ LET device == FindById(d) IN
       reqs' = [reqs EXCEPT ![r] =
          IF ~device.exists
            THEN Done(Begin(r, "checkin", u, d), "NotFound")
          ELSE IF ~device.isCheckedOut
            THEN Done(Begin(r, "checkin", u, d), "NotCheckedOut")
          ELSE [Begin(r, "checkin", u, d) EXCEPT !.pc = "user", !.doc =
                  Loaded(device, {"isCheckedOut", "lastCheckedOutBy",
                                  "lastCheckedInDate"})]]
    /\ UNCHANGED <<devices, now, lastOp>>

\* A check-in that forgets to clear the flag.
CheckInAssign_KeepsFlag(t) == [lastCheckedInDate |-> t]

\* A check-in that also clears the holder pointer.
CheckInAssign_ClearsHolder(t) ==
    [isCheckedOut |-> FALSE, lastCheckedInDate |-> t, lastCheckedOutBy |-> NoUser]

\* device.isCheckedOut = false; device.lastCheckedInDate = Date.now()
CheckInAssign(t) == [isCheckedOut |-> FALSE, lastCheckedInDate |-> t]

\* A check-in without the ownership check.
CheckInUser_NoOwnerCheck(r) ==
    /\ reqs[r].op = "checkin" /\ reqs[r].pc = "user"
    /\ reqs' = [reqs EXCEPT ![r] =
          [@ EXCEPT !.pc = "save", !.stamp = now, !.doc = NoDevice,
                    !.mod = Modified(reqs[r].doc, CheckInAssign(now))]]
    /\ UNCHANGED <<devices, now, lastOp>>

\* User.findById resolves; the ownership check on the document read by
\* CheckInFind, then the two assignments.
CheckInUser(r) ==
    /\ reqs[r].op = "checkin" /\ reqs[r].pc = "user"
    /\ reqs' = [reqs EXCEPT ![r] =
          IF reqs[r].doc.lastCheckedOutBy # reqs[r].user
            THEN Done(@, "NotHolder")
          ELSE [@ EXCEPT !.pc = "save", !.stamp = now, !.doc = NoDevice,
                         !.mod = Modified(reqs[r].doc, CheckInAssign(now))]]
    /\ UNCHANGED <<devices, now, lastOp>>

\* device.save(), then Device.find() and the response.
CheckInSave(r) ==
    /\ reqs[r].op = "checkin" /\ reqs[r].pc = "save"
    /\ LET d == reqs[r].dev IN
       IF devices[d].exists
         THEN /\ devices' = [devices EXCEPT ![d] =
                    SaveDoc(@, reqs[r].mod, CheckInAssign(reqs[r].stamp))]
              /\ lastOp' = [lastOp EXCEPT ![d] = "checkin"]
              /\ Respond(r, "ok")
         ELSE /\ UNCHANGED <<devices, lastOp>>
              /\ \E res \in {"ok", "ServerError"} : Respond(r, res)
    /\ UNCHANGED now

\* -------------------------------------------- PUT api/devices/feedback/:id
\* The check looking at the newest entry only.
Reviewed_HeadOnly(ledger, u) == ledger # <<>> /\ Head(ledger).user = u

\* feedbacks.some(feedback => feedback.user.toString() === req.user.id)
Reviewed(ledger, u) == \E i \in 1 .. Len(ledger) : ledger[i].user = u

\* The subdocument of a review: rating falls back to the schema default when
\* the body carries none (0).  name, text and date ride along with rating.
Entry(u, rating) ==
    [user |-> u, rating |-> IF rating = 0 THEN DefaultRating ELSE rating]

\* The entry pushed to the end of the array.
Unshift_Push(ledger, e) == ledger \o <<e>>

\* feedbacks.unshift(entry)
Unshift(ledger, e) == <<e>> \o ledger

\* The filter with the comparison turned round: it keeps the reviewer's
\* entries and drops the others.
RECURSIVE Filter_Inverted(_, _)
Filter_Inverted(ledger, u) ==
    IF ledger = <<>> THEN <<>>
    ELSE IF Head(ledger).user = u
      THEN <<Head(ledger)>> \o Filter_Inverted(Tail(ledger), u)
    ELSE Filter_Inverted(Tail(ledger), u)

\* feedbacks.filter(({ user }) => user.toString() !== req.user.id)
RECURSIVE Filter(_, _)
Filter(ledger, u) ==
    IF ledger = <<>> THEN <<>>
    ELSE IF Head(ledger).user # u
      THEN <<Head(ledger)>> \o Filter(Tail(ledger), u)
    ELSE Filter(Tail(ledger), u)

\* A save that writes the array whatever the stored version is.
SaveLedger_Unversioned(r) ==
    LET d == reqs[r].dev IN
    IF devices[d].exists
      THEN /\ devices' = [devices EXCEPT ![d].feedbacks = reqs[r].doc.feedbacks,
                                         ![d].v = @ + 1]
           /\ Respond(r, "ok")
      ELSE /\ UNCHANGED devices
           /\ Respond(r, "ServerError")

\* document.save() after the array was replaced: $set of the whole array,
\* guarded by and incrementing the document version __v.  A document that
\* is gone or has moved on matches nothing and the save rejects.
SaveLedger(r) ==
    LET d == reqs[r].dev IN
    IF devices[d].exists /\ devices[d].v = reqs[r].doc.v
      THEN /\ devices' = [devices EXCEPT ![d].feedbacks = reqs[r].doc.feedbacks,
                                         ![d].v = @ + 1]
           /\ Respond(r, "ok")
      ELSE /\ UNCHANGED devices
           /\ Respond(r, "ServerError")

\* The handler with a second review replacing the reviewer's first.
AddFeedbackFind_Replaces(r, u, d, rating, writes) ==
    /\ reqs[r].pc = "idle"
    /\ LET device == FindById(d) IN
       /\ device.exists => device.v < writes
       /\ reqs' = [reqs EXCEPT ![r] =
            IF ~device.exists
              THEN Done(Begin(r, "addfeedback", u, d), "ServerError")
            ELSE [Begin(r, "addfeedback", u, d) EXCEPT !.pc = "save", !.doc =
                    [Loaded(device, {"v"}) EXCEPT !.feedbacks =
                        Unshift(Filter(device.feedbacks, u), Entry(u, rating))]]]
    /\ UNCHANGED <<devices, now, lastOp>>

\* Device.findById; a null device throws on device.feedbacks and the catch
\* answers 500.  Then the duplicate check, User.findById and the unshift.
AddFeedbackFind(r, u, d, rating, writes) ==
    /\ reqs[r].pc = "idle"
    /\ LET device == FindById(d) IN
       /\ device.exists => device.v < writes
       /\ reqs' = [reqs EXCEPT ![r] =
            IF ~device.exists
              THEN Done(Begin(r, "addfeedback", u, d), "ServerError")
            ELSE IF Reviewed(device.feedbacks, u)
              THEN Done(Begin(r, "addfeedback", u, d), "DuplicateReview")
            ELSE [Begin(r, "addfeedback", u, d) EXCEPT !.pc = "save", !.doc =
                    [Loaded(device, {"v"}) EXCEPT !.feedbacks =
                        Unshift(device.feedbacks, Entry(u, rating))]]]
    /\ UNCHANGED <<devices, now, lastOp>>

\* device.save() and the response.
AddFeedbackSave(r) ==
    /\ reqs[r].op = "addfeedback" /\ reqs[r].pc = "save"
    /\ SaveLedger(r)
    /\ UNCHANGED <<now, lastOp>>

\* ----------------------------------------- DELETE api/devices/feedback/:id
\* Device.findById (null throws, 500), the presence check and the filter.
RemoveFeedbackFind(r, u, d, writes) ==
    /\ reqs[r].pc = "idle"
    /\ LET device == FindById(d) IN
       /\ device.exists => device.v < writes
       /\ reqs' = [reqs EXCEPT ![r] =
            IF ~device.exists
              THEN Done(Begin(r, "removefeedback", u, d), "ServerError")
            ELSE IF ~Reviewed(device.feedbacks, u)
              THEN Done(Begin(r, "removefeedback", u, d), "ReviewNotFound")
            ELSE [Begin(r, "removefeedback", u, d) EXCEPT !.pc = "save", !.doc =
                    [Loaded(device, {"v"}) EXCEPT !.feedbacks =
                        Filter(device.feedbacks, u)]]]
    /\ UNCHANGED <<devices, now, lastOp>>

\* device.save() and the response.
RemoveFeedbackSave(r) ==
    /\ reqs[r].op = "removefeedback" /\ reqs[r].pc = "save"
    /\ SaveLedger(r)
    /\ UNCHANGED <<now, lastOp>>

\* ------------------------------------------------------- specifications
\* Device ids a request may name: the registered ones and one that is not.
AnyId == 1 .. (Len(devices) + 1)

Step(r, bound) ==
    \/ \E u \in Users, valid \in BOOLEAN : RegisterCount(r, u, valid, bound)
    \/ RegisterSave(r)
    \/ \E u \in Users, d \in AnyId : RemoveFind(r, u, d)
    \/ RemoveSave(r)
    \/ \E u \in Users, d \in AnyId : CheckOutStart(r, u, d)
    \/ CheckOutFind(r)
    \/ CheckOutScan(r)
    \/ CheckOutSave(r)
    \/ \E u \in Users, d \in AnyId : CheckInFind(r, u, d)
    \/ CheckInUser(r)
    \/ CheckInSave(r)
    \/ Finish(r)

\* The feedback handlers.
Review(r, reviewers, ratings, writes) ==
    \/ \E u \in reviewers, d \in AnyId, g \in ratings :
          AddFeedbackFind(r, u, d, g, writes)
    \/ AddFeedbackSave(r)
    \/ \E u \in reviewers, d \in AnyId : RemoveFeedbackFind(r, u, d, writes)
    \/ RemoveFeedbackSave(r)

\* Concurrent requests, through the opening of the admission window.
Next == Tick(LastHour) \/ \E r \in Reqs : Step(r, MaxDevices)

Spec == Init /\ [][Next]_vars

\* One request at a time (each response precedes the next request), through
\* the whole afternoon.
NextOne == Tick(DayEnd) \/ Step(1, MaxDevices) \/ Review(1, {"A"}, {0}, MaxVersion)

SpecOne == Init /\ [][NextOne]_vars

\* Registrations only, up to one device past the pool limit.
NextCap ==
    \E r \in Reqs :
        \/ \E valid \in BOOLEAN : RegisterCount(r, "A", valid, CapRegs)
        \/ RegisterSave(r)
        \/ Finish(r)

SpecCap == Init /\ [][NextCap]_vars

\* Concurrent reviews of one device by both users, with and without a
\* rating in the body; the device can be removed under them.
NextReview ==
    \E r \in Reqs :
        \/ \E valid \in BOOLEAN : RegisterCount(r, "A", valid, ReviewDevices)
        \/ RegisterSave(r)
        \/ \E u \in Users, d \in AnyId : RemoveFind(r, u, d)
        \/ RemoveSave(r)
        \/ Review(r, Users, Ratings, ReviewWrites)
        \/ Finish(r)

SpecReview == Init /\ [][NextReview]_vars

\* ================================================================ claims
\* u is the holder of device d.
Holder(u, d) ==
    /\ d \in DevIds
    /\ devices[d].exists
    /\ devices[d].isCheckedOut
    /\ devices[d].lastCheckedOutBy = u

Held(u) == {d \in DevIds : Holder(u, d)}

\* Request r is at step p of handler o and takes it.
Takes(r, o, p) == reqs[r].op = o /\ reqs[r].pc = p /\ reqs'[r] # reqs[r]

Answers(r, res) == reqs'[r].pc = "done" /\ reqs'[r].result = res

\* C1: in every reachable state each user is the holder of at most one
\* device.
C1_OneDevicePerUser == \A u \in Users : Cardinality(Held(u)) <= 1

\* C2: of two concurrent CheckOuts of one available device by two users
\* only one succeeds: no CheckOut succeeds on a device that another user's
\* CheckOut has taken and not returned.
C2_OneWinner ==
    [][\A r \in Reqs :
         (Takes(r, "checkout", "save") /\ Answers(r, "ok")
             /\ devices[reqs[r].dev].exists)
         => ~(\E u \in Users \ {reqs[r].user} : Holder(u, reqs[r].dev))]_vars

\* C3: the number of devices in the registry never exceeds 10.
C3_WithinCapacity == Count <= 10

\* C4: a device is checked out if and only if the last of the CheckOuts
\* and CheckIns that succeeded on it is a CheckOut.
C4_CheckedOutIffLastCheckOut ==
    \A d \in DevIds :
        devices[d].exists => (devices[d].isCheckedOut <=> lastOp[d] = "checkout")

C4_Witness ==
    \E d, e \in DevIds :
        /\ devices[d].exists /\ devices[d].isCheckedOut /\ lastOp[d] = "checkout"
        /\ devices[e].exists /\ ~devices[e].isCheckedOut /\ lastOp[e] = "checkin"

\* C5: a CheckOut arriving at an hour before 15 or after 17 is answered
\* OutsideAdmissionWindow and changes no device, whatever the registry
\* holds; a CheckOut arriving at hour 15, 16 or 17 is not, and no later step
\* of a CheckOut gives that answer.
C5_AdmissionWindow ==
    [][\A r \in Reqs :
         /\ \A u \in Users, d \in AnyId :
               CheckOutStart(r, u, d) =>
                 IF (now % 24) < 15 \/ (now % 24) > 17
                   THEN Answers(r, "OutsideAdmissionWindow") /\ devices' = devices
                   ELSE ~Answers(r, "OutsideAdmissionWindow")
         /\ (reqs[r].pc # "idle" /\ reqs'[r] # reqs[r])
               => reqs'[r].result # "OutsideAdmissionWindow"]_vars

C5_Witness ==
    \E r \in Reqs, d, e \in DevIds :
        /\ reqs[r].op = "checkout" /\ reqs[r].result = "OutsideAdmissionWindow"
        /\ (now % 24) > 17
        /\ Holder("A", d)
        /\ ~devices[e].exists

\* C6 as stated: a CheckIn on an existing device by a user who is not its
\* holder is answered NotHolder and changes no device.
C6_NonHolderGetsNotHolder ==
    [][\A r \in Reqs, u \in Users, d \in DevIds :
         (CheckInFind(r, u, d) /\ devices[d].exists /\ ~Holder(u, d))
         => /\ devices' = devices
            /\ reqs'[r].pc = "done" => reqs'[r].result = "NotHolder"]_vars

\* C6 amended: a CheckIn on an existing device that is checked out, by a
\* user who is not its holder, is answered NotHolder; on an existing device
\* that is not checked out it is answered NotCheckedOut; either way no field
\* of any device changes.
C6_CheckedOutNonHolderGetsNotHolder ==
    [][\A r \in Reqs :
         /\ \A u \in Users, d \in DevIds :
               (CheckInFind(r, u, d) /\ devices[d].exists)
               => /\ devices' = devices
                  /\ ~devices[d].isCheckedOut => Answers(r, "NotCheckedOut")
                  /\ devices[d].isCheckedOut => reqs'[r].pc = "user"
         /\ (/\ Takes(r, "checkin", "user")
             /\ devices[reqs[r].dev].exists
             /\ devices[reqs[r].dev].isCheckedOut
             /\ ~Holder(reqs[r].user, reqs[r].dev))
               => Answers(r, "NotHolder") /\ devices' = devices]_vars

C6_Witness ==
    \E r \in Reqs, d \in DevIds :
        /\ reqs[r].op = "checkin" /\ reqs[r].result = "NotHolder"
        /\ Holder("B", d)
        /\ devices[d].feedbacks # <<>>
        /\ devices[d].lastCheckedInDate # NoDate

\* C7: an in-window CheckOut of an existing device by a user who holds any
\* device (the target included) is answered UserAlreadyHolding; otherwise,
\* when the target is checked out, AlreadyCheckedOut; no device changes.
C7_HoldingThenAvailability ==
    [][\A r \in Reqs :
         Takes(r, "checkout", "scan") =>
           IF Held(reqs[r].user) # {}
             THEN Answers(r, "UserAlreadyHolding") /\ devices' = devices
           ELSE (devices[reqs[r].dev].exists /\ devices[reqs[r].dev].isCheckedOut)
                  => Answers(r, "AlreadyCheckedOut") /\ devices' = devices]_vars

C7_Witness ==
    \E r \in Reqs, d \in DevIds :
        /\ reqs[r].op = "checkout" /\ reqs[r].result = "AlreadyCheckedOut"
        /\ Holder("A", d)
        /\ Held("B") = {}

\* C8: an in-window CheckOut of an existing device that is not checked out,
\* by a user who holds no device, succeeds; it sets isCheckedOut,
\* lastCheckedOutBy = the user and lastCheckedOutDate = the time of the
\* assignment on the target and changes nothing else in the registry.
C8_CheckOutEffect ==
    [][\A r \in Reqs :
         /\ (/\ Takes(r, "checkout", "scan")
             /\ Held(reqs[r].user) = {}
             /\ devices[reqs[r].dev].exists
             /\ ~devices[reqs[r].dev].isCheckedOut)
               => /\ reqs'[r].pc = "save"
                  /\ reqs'[r].stamp = now
                  /\ devices' = devices
         /\ (Takes(r, "checkout", "save") /\ devices[reqs[r].dev].exists)
               => /\ Answers(r, "ok")
                  /\ devices' = [devices EXCEPT ![reqs[r].dev] =
                        [@ EXCEPT !.isCheckedOut = TRUE,
                                  !.lastCheckedOutBy = reqs[r].user,
                                  !.lastCheckedOutDate = reqs[r].stamp]]]_vars

C8_Witness ==
    \E r \in Reqs, d, e \in DevIds :
        /\ reqs[r].op = "checkout" /\ reqs[r].result = "ok"
        /\ Holder("B", d)
        /\ devices[d].lastCheckedInDate # NoDate
        /\ devices[d].lastCheckedOutDate > devices[d].lastCheckedInDate
        /\ devices[d].feedbacks # <<>>
        /\ e # d /\ devices[e].exists

\* C9: a successful CheckIn sets isCheckedOut = false and lastCheckedInDate
\* = the time of the assignment and leaves the rest, so lastCheckedOutBy
\* still names the user who held the device.
C9_CheckInEffect ==
    [][\A r \in Reqs :
         /\ (Takes(r, "checkin", "user") /\ reqs'[r].pc = "save")
               => reqs'[r].stamp = now /\ devices' = devices
         /\ (Takes(r, "checkin", "save") /\ devices[reqs[r].dev].exists)
               => /\ Answers(r, "ok")
                  /\ devices' = [devices EXCEPT ![reqs[r].dev] =
                        [@ EXCEPT !.isCheckedOut = FALSE,
                                  !.lastCheckedInDate = reqs[r].stamp]]
                  /\ devices'[reqs[r].dev].lastCheckedOutBy = reqs[r].user]_vars

C9_Witness ==
    \E r \in Reqs, d \in DevIds :
        /\ reqs[r].op = "checkin" /\ reqs[r].result = "ok"
        /\ devices[d].exists /\ ~devices[d].isCheckedOut
        /\ lastOp[d] = "checkin"
        /\ devices[d].lastCheckedOutBy = "A"
        /\ devices[d].lastCheckedInDate > devices[d].lastCheckedOutDate

\* C10: requests being served one at a time, a CheckIn leaves its user
\* holding nothing and the device free; on a device whose last CheckOut or
\* CheckIn was a CheckIn, a CheckOut arriving in the window by a user who
\* holds no device passes every check and succeeds, making that user the
\* holder.
C10_CheckOutAfterCheckIn ==
    [][\A r \in Reqs, u \in Users, d \in DevIds :
         /\ (/\ Takes(r, "checkin", "save")
             /\ reqs[r].user = u /\ reqs[r].dev = d
             /\ devices[d].exists)
               => /\ ~devices'[d].isCheckedOut
                  /\ Held(u)' = {}
         /\ (/\ CheckOutStart(r, u, d)
             /\ lastOp[d] = "checkin"
             /\ (now % 24) \in 15 .. 17)
               => reqs'[r].pc = "find"
         /\ (/\ reqs[r].op = "checkout"
             /\ reqs'[r] # reqs[r]
             /\ reqs[r].user = u /\ reqs[r].dev = d
             /\ devices[d].exists
             /\ lastOp[d] = "checkin")
               => /\ reqs[r].pc = "find" => reqs'[r].pc = "scan"
                  /\ (reqs[r].pc = "scan" /\ Held(u) = {})
                        => reqs'[r].pc = "save"
                  /\ reqs[r].pc = "save"
                        => Answers(r, "ok") /\ Holder(u, d)']_vars

C10_Witness ==
    \E r \in Reqs, d \in DevIds :
        /\ reqs[r].op = "checkout" /\ reqs[r].pc = "save"
        /\ reqs[r].user = "B" /\ reqs[r].dev = d
        /\ lastOp[d] = "checkin"
        /\ devices[d].lastCheckedOutBy = "A"
        /\ devices[d].lastCheckedInDate = now

\* C11: a checked-out device names as lastCheckedOutBy the user of the
\* CheckOut that most recently succeeded on it: a CheckOut that succeeds
\* leaves its own user there, and while the device stays checked out no
\* other step changes the name.
C11_HolderIsLastCheckOut ==
    [][\A d \in DevIds :
         (devices[d].exists /\ devices'[d].exists /\ devices'[d].isCheckedOut)
         => /\ \A r \in Reqs, u \in Users :
                 (/\ Takes(r, "checkout", "save")
                  /\ reqs[r].user = u /\ reqs[r].dev = d
                  /\ Answers(r, "ok"))
                 => devices'[d].lastCheckedOutBy = u
            /\ (/\ devices[d].isCheckedOut
                /\ ~(\E r \in Reqs : Takes(r, "checkout", "save")
                                       /\ reqs[r].dev = d))
                 => devices'[d].lastCheckedOutBy = devices[d].lastCheckedOutBy]_vars

\* C12: in every reachable state, the states between the read and the save
\* of concurrent AddFeedback requests of one reviewer on one device
\* included, a ledger holds at most one entry of each reviewer.
C12_OneEntryPerReviewer ==
    \A d \in DevIds, u \in Users :
        devices[d].exists =>
            Cardinality({i \in 1 .. Len(devices[d].feedbacks) :
                            devices[d].feedbacks[i].user = u}) <= 1

\* Two AddFeedback requests of A read the ledger before either saved; one
\* has saved, the other still holds its stale document.
C12_Witness ==
    \E r, q \in Reqs, d \in DevIds :
        /\ reqs[r].op = "addfeedback" /\ reqs[r].pc = "done"
        /\ reqs[r].result = "ok"
        /\ reqs[q].op = "addfeedback" /\ reqs[q].pc = "save"
        /\ reqs[q].user = "A" /\ reqs[q].dev = d
        /\ devices[d].exists
        /\ devices[d].v = reqs[q].doc.v + 1
        /\ devices[d].feedbacks = <<Entry("A", 3)>>

\* C13: an AddFeedback on a device whose ledger already holds an entry of
\* the reviewer is answered DuplicateReview and changes nothing: the ledger
\* keeps its entries, their order, and the rating of the existing entry.
C13_DuplicateReview ==
    [][\A r \in Reqs, u \in Users, d \in DevIds, g \in Ratings :
         (/\ AddFeedbackFind(r, u, d, g, ReviewWrites)
          /\ devices[d].exists
          /\ \E i \in 1 .. Len(devices[d].feedbacks) :
                devices[d].feedbacks[i].user = u)
         => /\ Answers(r, "DuplicateReview")
            /\ devices' = devices]_vars

\* A second review of a device reviewed by B and then by A was refused:
\* both entries are in place, B's with the rating it was given.
C13_Witness ==
    \E r \in Reqs, d \in DevIds :
        /\ reqs[r].op = "addfeedback" /\ reqs[r].pc = "done"
        /\ reqs[r].result = "DuplicateReview"
        /\ devices[d].exists
        /\ devices[d].feedbacks = <<Entry("A", 0), Entry("B", 3)>>

\* C14: on a ledger without an entry of the reviewer, a successful
\* AddFeedback followed by the reviewer's RemoveFeedback gives back the
\* ledger as it was before the add: the add puts the reviewer's entry in
\* front of the ledger it found, and the remove that finds it there leaves
\* exactly the entries behind it, in their order.
C14_AddThenRemove ==
    [][\A r \in Reqs, u \in Users, d \in DevIds :
         (/\ reqs[r].user = u /\ reqs[r].dev = d
          /\ reqs[r].pc = "save"
          /\ Answers(r, "ok"))
         => /\ reqs[r].op = "addfeedback"
                 => /\ Len(devices'[d].feedbacks) = Len(devices[d].feedbacks) + 1
                    /\ Head(devices'[d].feedbacks).user = u
                    /\ Tail(devices'[d].feedbacks) = devices[d].feedbacks
            /\ (/\ reqs[r].op = "removefeedback"
                /\ Head(devices[d].feedbacks).user = u)
                 => devices'[d].feedbacks = Tail(devices[d].feedbacks)]_vars

\* A's review of a device already reviewed by B was added and removed
\* again: three writes, and the ledger is B's entry as before.
C14_Witness ==
    \E r, q \in Reqs, d \in DevIds :
        /\ reqs[r].op = "removefeedback" /\ reqs[r].pc = "done"
        /\ reqs[r].result = "ok"
        /\ reqs[q].op = "addfeedback" /\ reqs[q].pc = "done"
        /\ reqs[q].result = "ok"
        /\ devices[d].exists
        /\ devices[d].v = 3
        /\ devices[d].feedbacks = <<Entry("B", 3)>>

\* C15: an AddFeedback or a RemoveFeedback naming a device that is not in
\* the registry is answered NotFound and changes nothing.
C15_FeedbackNotFound ==
    [][\A r \in Reqs, u \in Users, d \in AnyId :
         (/\ \/ \E g \in Ratings : AddFeedbackFind(r, u, d, g, ReviewWrites)
             \/ RemoveFeedbackFind(r, u, d, ReviewWrites)
          /\ ~FindById(d).exists)
         => /\ Answers(r, "NotFound")
            /\ devices' = devices]_vars

\* C16: a RemoveDevice deletes the device exactly when the device exists
\* and the requester registered it, checked out or not; on an absent device
\* it is answered NotFound and from another requester Forbidden, and these
\* change nothing.  No other request deletes a device.
C16_RemoveDevice ==
    [][/\ \A r \in Reqs, u \in Users, d \in AnyId :
            RemoveFind(r, u, d)
            => /\ devices' = devices
               /\ ~FindById(d).exists => Answers(r, "NotFound")
               /\ (FindById(d).exists /\ FindById(d).registeredBy # u)
                     => Answers(r, "Forbidden")
               /\ (FindById(d).exists /\ FindById(d).registeredBy = u)
                     => reqs'[r].pc = "save"
       /\ \A r \in Reqs, u \in Users, d \in DevIds :
            (/\ Takes(r, "remove", "save")
             /\ reqs[r].user = u /\ reqs[r].dev = d)
            => /\ Answers(r, "ok")
               /\ ~devices'[d].exists
               /\ \A e \in DevIds \ {d} : devices'[e] = devices[e]
               /\ Len(devices') = Len(devices)
       /\ \A d \in DevIds :
            (devices[d].exists /\ ~devices'[d].exists)
            => \E r \in Reqs :
                  /\ Takes(r, "remove", "save")
                  /\ reqs[r].dev = d
                  /\ reqs[r].user = devices[d].registeredBy]_vars

\* A device was removed by its registerer while it was checked out.
C16_Witness ==
    \E r \in Reqs, d \in DevIds :
        /\ reqs[r].op = "remove" /\ reqs[r].pc = "done"
        /\ reqs[r].result = "ok"
        /\ ~devices[d].exists
        /\ lastOp[d] = "checkout"

\* C17: a successful AddFeedback puts the new entry, with the rating of the
\* request or the default, at the head of the ledger and keeps the previous
\* entries behind it in their order; a RemoveFeedback keeps the order of the
\* entries it leaves.  So a ledger lists its entries latest first.
C17_NewestFirst ==
    [][/\ \A r \in Reqs, u \in Users, d \in DevIds, g \in Ratings :
            (AddFeedbackFind(r, u, d, g, ReviewWrites) /\ reqs'[r].pc = "save")
            => /\ Head(reqs'[r].doc.feedbacks) =
                    [user |-> u, rating |-> IF g = 0 THEN DefaultRating ELSE g]
               /\ Tail(reqs'[r].doc.feedbacks) = devices[d].feedbacks
       /\ \A r \in Reqs, d \in DevIds :
            (/\ Takes(r, "addfeedback", "save")
             /\ reqs[r].dev = d
             /\ Answers(r, "ok"))
            => /\ Head(devices'[d].feedbacks) = Head(reqs[r].doc.feedbacks)
               /\ Tail(devices'[d].feedbacks) = devices[d].feedbacks
       /\ \A r \in Reqs, d \in DevIds :
            (/\ Takes(r, "removefeedback", "save")
             /\ reqs[r].dev = d
             /\ Answers(r, "ok"))
            => \A i, j \in 1 .. Len(devices'[d].feedbacks) :
                  i < j =>
                    \E k, l \in 1 .. Len(devices[d].feedbacks) :
                        /\ k < l
                        /\ devices[d].feedbacks[k] = devices'[d].feedbacks[i]
                        /\ devices[d].feedbacks[l] = devices'[d].feedbacks[j]]_vars

\* B reviewed the device with rating 3 after A reviewed it without one.
C17_Witness ==
    \E r \in Reqs, d \in DevIds :
        /\ reqs[r].op = "addfeedback" /\ reqs[r].pc = "done"
        /\ reqs[r].result = "ok"
        /\ devices[d].exists
        /\ devices[d].v = 2
        /\ devices[d].feedbacks = <<Entry("B", 3), Entry("A", 0)>>

\* C18: while a device is checked out by a user, only a CheckIn of that
\* user, or the removal of the device, ends its checked-out state: a CheckIn
\* of a former holder that read the device before it changed hands does not
\* set isCheckedOut to false on the device another user now holds.
C18_OnlyHolderChecksIn ==
    [][\A d \in DevIds, u \in Users :
         (/\ Holder(u, d)
          /\ ~(devices'[d].exists /\ devices'[d].isCheckedOut))
         => \E r \in Reqs :
               /\ reqs[r].pc = "save" /\ reqs[r].dev = d
               /\ reqs'[r] # reqs[r]
               /\ \/ reqs[r].op = "remove"
                  \/ reqs[r].op = "checkin" /\ reqs[r].user = u]_vars

\* C19: the hour plays no part in a CheckIn: at whatever hour it arrives, a
\* CheckIn of a checked-out device by its holder passes the state check and
\* the ownership check, and its save frees the device and answers success.
C19_CheckInAtAnyHour ==
    [][\A r \in Reqs, u \in Users, d \in DevIds :
         /\ (/\ Holder(u, d)
             /\ reqs'[r].op = "checkin"
             /\ CheckInFind(r, u, d))
               => reqs'[r].pc = "user"
         /\ (/\ Holder(u, d)
             /\ reqs[r].op = "checkin"
             /\ reqs[r].user = u /\ reqs[r].dev = d
             /\ reqs'[r] # reqs[r])
               => /\ reqs[r].pc = "user" => reqs'[r].pc = "save"
                  /\ reqs[r].pc = "save"
                        => /\ Answers(r, "ok")
                           /\ devices'[d].exists
                           /\ ~devices'[d].isCheckedOut]_vars

\* A device checked out in the window was returned by its holder at 18h,
\* after the window closed.
C19_Witness ==
    \E r \in Reqs, d \in DevIds :
        /\ reqs[r].op = "checkin" /\ reqs[r].pc = "done"
        /\ reqs[r].result = "ok"
        /\ devices[d].exists /\ ~devices[d].isCheckedOut
        /\ lastOp[d] = "checkin"
        /\ GetHours(devices[d].lastCheckedOutDate) \in WindowOpen .. WindowClose
        /\ GetHours(devices[d].lastCheckedInDate) > WindowClose
        /\ now = devices[d].lastCheckedInDate

\* C20: no review is lost to a concurrent writer: an AddFeedback that
\* answers success has put its entry in the ledger, and an entry leaves a
\* ledger only by a successful RemoveFeedback of its reviewer or by the
\* removal of the device, however the reads and saves of other requests
\* fall around it.
C20_NoLostFeedback ==
    [][/\ \A r \in Reqs, d \in DevIds :
            (/\ Takes(r, "addfeedback", "save")
             /\ reqs[r].dev = d
             /\ Answers(r, "ok"))
            => \E j \in 1 .. Len(devices'[d].feedbacks) :
                  devices'[d].feedbacks[j] = Head(reqs[r].doc.feedbacks)
       /\ \A d \in DevIds :
            \A i \in 1 .. Len(devices[d].feedbacks) :
                (/\ devices[d].exists
                 /\ ~(/\ devices'[d].exists
                      /\ \E j \in 1 .. Len(devices'[d].feedbacks) :
                            devices'[d].feedbacks[j] = devices[d].feedbacks[i]))
                => \E r \in Reqs :
                      /\ reqs[r].pc = "save" /\ reqs[r].dev = d
                      /\ reqs'[r] # reqs[r]
                      /\ \/ reqs[r].op = "remove"
                         \/ /\ reqs[r].op = "removefeedback"
                            /\ reqs[r].user = devices[d].feedbacks[i].user
                            /\ Answers(r, "ok")]_vars

\* B's AddFeedback read the empty ledger, A's AddFeedback then saved and
\* answered success, and B's save is still to come.
C20_Witness ==
    \E r, q \in Reqs, d \in DevIds :
        /\ reqs[r].op = "addfeedback" /\ reqs[r].pc = "done"
        /\ reqs[r].result = "ok"
        /\ reqs[q].op = "addfeedback" /\ reqs[q].pc = "save"
        /\ reqs[q].user = "B" /\ reqs[q].dev = d
        /\ reqs[q].doc.feedbacks = <<Entry("B", 0)>>
        /\ devices[d].exists
        /\ devices[d].v = reqs[q].doc.v + 1
        /\ devices[d].feedbacks = <<Entry("A", 3)>>

====
